---- MODULE Spec2Model ----
(***************************************************************************)
(* Client-side image cache and optimization-state coordinator of the       *)
(* wedding greeting card web app (public/script.js).                       *)
(*                                                                         *)
(* All handlers run on one event loop: a handler runs without interruption *)
(* up to its next await, and every await is a point where any other        *)
(* handler (file selection, toggle, submit, a FileReader load, a network   *)
(* response) may run.  One action of the model is one such uninterrupted   *)
(* stretch of code.                                                        *)
(*                                                                         *)
(* Purely cosmetic DOM state (the placeholder, the polaroid 'active'       *)
(* class, the drag-over class, the file name label) and the record         *)
(* timestamp written by set (never read) are not modelled.                 *)
(***************************************************************************)
EXTENDS Integers, Sequences, FiniteSets, TLC

\* ------------------------------------------------------------------ bounds
\* The style <select> offers the values 0..MaxStyle.
MaxStyle == 1
\* FileReader decodes of selected files that may be pending at once.
MaxReaders == 2
\* Submit click handlers that may be running at once.
MaxSubmits == 1
\* Toggle-ON handlers that may be running at once.
MaxSessions == 2
\* Entries the quota of localStorage leaves room for (data URLs of photos
\* are large and the quota is a few megabytes).
LsCapacity == 1
\* Records the quota of the structured store leaves room for.
IdbCapacity == 1
\* Length of the imageStyleIndex strings sent to the optimize endpoint.
MaxIndexLen == 3

\* --------------------------------------------------------- program constants
MaxFileSize == 50 * 1024 * 1024
CACHE_KEY_PREFIX == "wedding_card_"

\* -------------------------------------------------------------- data values
\* JavaScript null / undefined.
Null == [kind |-> "null"]

\* The data URL FileReader.readAsDataURL yields for the file with this id.
OrigUrl(fileId) == [kind |-> "orig", file |-> fileId]
\* The data URL of the image the optimize endpoint returns for the bytes of
\* the file with this id and this style index.
OptUrl(fileId, style) == [kind |-> "opt", file |-> fileId, style |-> style]

Styles == 0 .. MaxStyle

\* Media types, as character sequences.
ImagePng == <<"i", "m", "a", "g", "e", "/", "p", "n", "g">>
ImageOnly == <<"i", "m", "a", "g", "e">>
ImagesX == <<"i", "m", "a", "g", "e", "s", "/", "x">>
TextPlain == <<"t", "e", "x", "t", "/", "p", "l", "a", "i", "n">>
ImagePrefix == <<"i", "m", "a", "g", "e", "/">>

\* String.prototype.startsWith
StartsWith(s, p) == Len(s) >= Len(p) /\ SubSeq(s, 1, Len(p)) = p

\* The files the user can pick or drop.  Files 1 and 2 are acceptable
\* images (file 2 is exactly at the size limit); the others are not.
FileA == [id |-> 1, name |-> "a", type |-> ImagePng, size |-> 2 * 1024 * 1024]
FileB == [id |-> 2, name |-> "b", type |-> ImagePng, size |-> MaxFileSize]
FileBig == [id |-> 3, name |-> "big", type |-> ImagePng, size |-> MaxFileSize + 1]
FileTxt == [id |-> 4, name |-> "txt", type |-> TextPlain, size |-> 10]
FileNoSlash == [id |-> 5, name |-> "ns", type |-> ImageOnly, size |-> 10]
FileImagesX == [id |-> 6, name |-> "ix", type |-> ImagesX, size |-> 10]
FileHuge == [id |-> 7, name |-> "huge", type |-> TextPlain, size |-> 60 * 1024 * 1024]
Files == {FileA, FileB, FileBig, FileTxt, FileNoSlash, FileImagesX, FileHuge}

\* ------------------------------------------------------------- cache layer
\* Mutant of getCompositeKey: the style is left out of the key.
getCompositeKeyNoStyle(fileName, style) == fileName \o "_style_"

\* getCompositeKey: `${fileName}_style_${style}`; the style is rendered in
\* its canonical decimal form.
getCompositeKey(fileName, style) == fileName \o "_style_" \o ToString(style)

\* localStorage.getItem: the stored string, or null.
getItem(store, k) == IF k \in DOMAIN store THEN store[k] ELSE Null

\* localStorage.setItem when the quota allows it.
setItem(store, k, v) ==
    [x \in (DOMAIN store) \cup {k} |-> IF x = k THEN v ELSE store[x]]

\* The record of the object store 'images' with this key, or undefined.
storeGet(db, key) ==
    IF \E r \in db : r.key = key
    THEN CHOOSE r \in db : r.key = key
    ELSE Null

\* IDBObjectStore.put on a store with keyPath 'key': the record replaces
\* the record that has the same key.
storePut(db, rec) == {r \in db : r.key # rec.key} \cup {rec}

\* What the platform may do during one call of get.
\*   open: "ok" (onsuccess), "absent" (no window.indexedDB), "error" (onerror)
\*   tx:   "success" (req.onsuccess), "error" (req.onerror),
\*         "throws" (db.transaction / objectStore / get throws)
\* (tx is only looked at when the open succeeds.)
GetEnvs == {e \in [open : {"ok", "absent", "error"}, tx : {"success", "error", "throws"}] :
               e.open # "ok" => e.tx = "success"}

\* What the platform may do during one call of set.
\*   tx:    "complete" (tx.oncomplete), "error" (tx.onerror),
\*          "abort" (the transaction aborts with no error event: onabort only),
\*          "throws" (db.transaction / objectStore / put throws)
\*   quota: localStorage.setItem succeeds ("ok") or throws ("exceeded")
\* (tx is only looked at when the open succeeds, quota only when the
\* fallback store is written.)
SetEnvs == {e \in [open : {"ok", "absent", "error"},
                   tx : {"complete", "error", "abort", "throws"},
                   quota : {"ok", "exceeded"}] :
               /\ e.open # "ok" => e.tx = "error"
               /\ (e.open = "ok" /\ e.tx # "error") => e.quota = "ok"}

\* openDB: the database handle is there only when the open succeeds.
openDB(open) == open = "ok"

\* imageCache.get: the outcome of one call; status "rejected" is a rejected
\* promise.  backend names the store the returned value was read from.
\* (`cached || null` maps the empty string to null; data URLs are not empty.)
CacheGet(db, store, fileName, style, env) ==
    LET key == getCompositeKey(fileName, style)
        fallback == getItem(store, CACHE_KEY_PREFIX \o key)
    IN  IF ~openDB(env.open)
        THEN [status |-> "resolved", value |-> fallback, backend |-> "fallback"]
        ELSE IF env.tx = "throws"
        THEN [status |-> "rejected", value |-> Null, backend |-> "structured"]
        ELSE IF env.tx = "error"
        THEN [status |-> "resolved", value |-> fallback, backend |-> "fallback"]
        ELSE IF storeGet(db, key) # Null
        THEN [status |-> "resolved", value |-> storeGet(db, key).data,
              backend |-> "structured"]
        ELSE [status |-> "resolved", value |-> fallback, backend |-> "fallback"]

\* The try { localStorage.setItem } catch { console.warn } of set.
fallbackWrite(store, key, dataUrl, quota) ==
    IF quota = "ok" THEN setItem(store, CACHE_KEY_PREFIX \o key, dataUrl) ELSE store

\* imageCache.set: the outcome of one call and the stores after it; status
\* "pending" is a promise that is never settled.  stored names the store
\* the value was written to ("none" when it was written nowhere).
CacheSet(db, store, fileName, style, dataUrl, env) ==
    LET key == getCompositeKey(fileName, style)
        rec == [key |-> key, fileName |-> fileName, style |-> style, data |-> dataUrl]
        toFallback == [status |-> "resolved", db |-> db,
                       store |-> fallbackWrite(store, key, dataUrl, env.quota),
                       stored |-> IF env.quota = "ok" THEN "fallback" ELSE "none"]
    IN  IF ~openDB(env.open) THEN toFallback
        ELSE IF env.tx = "throws"
        THEN [status |-> "rejected", db |-> db, store |-> store, stored |-> "none"]
        ELSE IF env.tx = "complete"
        THEN [status |-> "resolved", db |-> storePut(db, rec), store |-> store,
              stored |-> "structured"]
        ELSE IF env.tx = "error" THEN toFallback
        ELSE [status |-> "pending", db |-> db, store |-> store, stored |-> "none"]

\* ---------------------------------------------------------------- state
VARIABLES
    selectedFile,            \* script.js:15, a file or Null
    originalImageDataUrl,    \* script.js:16
    optimizedImageDataUrl,   \* script.js:17
    backgroundImage,         \* polaroidImage.style.backgroundImage, Null when ''
    toggleChecked,           \* optimizeToggle.checked
    toggleDisabled,          \* optimizeToggle.disabled
    toggleShown,             \* toggleContainer.style.display = 'flex'
    styleValue,              \* imageStyleSelect.value
    loading,                 \* loading.style.display = 'block'
    submitDisabled,          \* submitBtn.disabled
    message,                 \* the message element
    readers,                 \* files whose FileReader decode is pending
    sessions,                \* invocations of the toggle-ON handler
    uploads,                 \* invocations of the submit handler in flight
    idb,                     \* object store 'images' of WeddingCardDB
    ls,                      \* localStorage
    hp,                      \* harness: the inputs drawn for the calls
    call,                    \* harness: the last call and its outcome
    lastSet                  \* cache harness: the last settled set

selVars == <<selectedFile, originalImageDataUrl, optimizedImageDataUrl>>
domVars == <<backgroundImage, toggleChecked, toggleDisabled, toggleShown,
             styleValue, loading, submitDisabled, message>>
asyncVars == <<readers, sessions, uploads>>
cacheVars == <<idb, ls>>
harnessVars == <<hp, call, lastSet>>
vars == <<selVars, domVars, asyncVars, cacheVars, harnessVars>>

NoMessage == [type |-> "none", text |-> ""]
\* showMessage(text, type)
Msg(text, type) == [type |-> type, text |-> text]

RemoveAt(seq, i) == SubSeq(seq, 1, i - 1) \o SubSeq(seq, i + 1, Len(seq))
ReplaceAt(seq, i, v) == [seq EXCEPT ![i] = v]

\* What the optimize endpoint may answer: the image, a non-success status
\* whose JSON body has an error text or none, or a transport failure.
OptimizeOutcomes == {"ok", "status_error", "reject"}
\* What the upload endpoint may answer.
UploadOutcomes == {"ok", "status_error", "reject"}

\* Error texts: the `error` field of a non-success JSON body, and the
\* message of the exception of a failed fetch, of reading the name of no
\* file, and of a failed transaction.
EndpointError == "quota exceeded"
TransportError == "Failed to fetch"
NullNameError == "Cannot read properties of null"
TransactionError == "transaction failed"

AppInit ==
    /\ selectedFile = Null
    /\ originalImageDataUrl = Null
    /\ optimizedImageDataUrl = Null
    /\ backgroundImage = Null
    /\ toggleChecked = FALSE
    /\ toggleDisabled = FALSE
    /\ toggleShown = FALSE
    /\ styleValue = 0
    /\ loading = FALSE
    /\ submitDisabled = TRUE
    /\ message = NoMessage
    /\ readers = << >>
    /\ sessions = << >>
    /\ uploads = << >>

CacheInit ==
    /\ idb = {}
    /\ ls = << >>

HarnessIdle ==
    /\ hp = << >>
    /\ call = [op |-> "none"]
    /\ lastSet = Null

Init == AppInit /\ CacheInit /\ HarnessIdle

\* ------------------------------------------------------------ file selection
\* clearMessage()
clearMessage == message' = NoMessage

\* The test of line 194.
typeOk(file) == StartsWith(file.type, ImagePrefix)

\* Mutant of sizeOk: a file of exactly the limit is turned away.
sizeOkStrict(file) == file.size < MaxFileSize

\* The test of line 199.
sizeOk(file) == ~(file.size > MaxFileSize)

\* handleFileSelect(file), from the file input's change event or a drop.
\* An accepted file starts a FileReader decode and becomes selectedFile in
\* the same stretch of code; the decode's onload runs later (ReaderLoad).
handleFileSelect(file) ==
    \/ /\ ~typeOk(file)
       /\ message' = Msg("Please select a valid image file", "error")
       /\ UNCHANGED <<selVars, backgroundImage, toggleChecked, toggleDisabled,
                      toggleShown, styleValue, loading, submitDisabled,
                      asyncVars, cacheVars, harnessVars>>
    \/ /\ typeOk(file)
       /\ ~sizeOk(file)
       /\ message' = Msg("File size must be less than 50MB", "error")
       /\ UNCHANGED <<selVars, backgroundImage, toggleChecked, toggleDisabled,
                      toggleShown, styleValue, loading, submitDisabled,
                      asyncVars, cacheVars, harnessVars>>
    \/ /\ typeOk(file)
       /\ sizeOk(file)
       /\ Len(readers) < MaxReaders
       /\ readers' = Append(readers, file)
       /\ selectedFile' = file
       /\ submitDisabled' = FALSE
       /\ clearMessage
       /\ UNCHANGED <<originalImageDataUrl, optimizedImageDataUrl, backgroundImage,
                      toggleChecked, toggleDisabled, toggleShown, styleValue,
                      loading, sessions, uploads, cacheVars, harnessVars>>

\* reader.onload of handleFileSelect, for the i-th pending decode.  Decodes
\* of different FileReader objects may complete in any order.
ReaderLoad(i) ==
    /\ i \in DOMAIN readers
    /\ originalImageDataUrl' = OrigUrl(readers[i].id)
    /\ optimizedImageDataUrl' = Null
    /\ backgroundImage' = OrigUrl(readers[i].id)
    /\ toggleShown' = TRUE
    /\ toggleChecked' = FALSE
    /\ readers' = RemoveAt(readers, i)
    /\ UNCHANGED <<selectedFile, toggleDisabled, styleValue, loading,
                   submitDisabled, message, sessions, uploads, cacheVars,
                   harnessVars>>

\* The user picks another entry of the style <select>; no handler listens.
StyleChange(s) ==
    /\ s \in Styles
    /\ s # styleValue
    /\ styleValue' = s
    /\ UNCHANGED <<selVars, backgroundImage, toggleChecked, toggleDisabled,
                   toggleShown, loading, submitDisabled, message, asyncVars,
                   cacheVars, harnessVars>>

\* ------------------------------------------------------------------ toggle
\* Mutant of ToggleChange: the ON branch leaves the toggle enabled.
ToggleChangeLeavesEnabled ==
    /\ toggleShown
    /\ ~toggleDisabled
    /\ toggleChecked' = ~toggleChecked
    /\ \/ /\ selectedFile = Null
          /\ UNCHANGED <<backgroundImage, loading, message, sessions>>
       \/ /\ selectedFile # Null
          /\ ~toggleChecked
          /\ Len(sessions) < MaxSessions
          /\ loading' = TRUE
          /\ clearMessage
          /\ sessions' = Append(sessions, [pc |-> "get",
                                           fileName |-> selectedFile.name,
                                           style |-> styleValue])
          /\ UNCHANGED backgroundImage
       \/ /\ selectedFile # Null
          /\ toggleChecked
          /\ backgroundImage' = IF originalImageDataUrl # Null
                                THEN originalImageDataUrl ELSE backgroundImage
          /\ UNCHANGED <<loading, message, sessions>>
    /\ UNCHANGED <<selVars, toggleDisabled, toggleShown, styleValue, submitDisabled,
                   readers, uploads, cacheVars, harnessVars>>

\* The change handler of optimizeToggle, up to its first await.  The user
\* can only click a toggle that is shown and not disabled; the click flips
\* checked before the handler runs.
ToggleChange ==
    /\ toggleShown
    /\ ~toggleDisabled
    /\ toggleChecked' = ~toggleChecked
    /\ \/ /\ selectedFile = Null
          /\ UNCHANGED <<backgroundImage, toggleDisabled, loading, message, sessions>>
       \/ /\ selectedFile # Null
          /\ ~toggleChecked
          /\ Len(sessions) < MaxSessions
          /\ loading' = TRUE
          /\ toggleDisabled' = TRUE
          /\ clearMessage
          /\ sessions' = Append(sessions, [pc |-> "get",
                                           fileName |-> selectedFile.name,
                                           style |-> styleValue])
          /\ UNCHANGED backgroundImage
       \/ /\ selectedFile # Null
          /\ toggleChecked
          /\ backgroundImage' = IF originalImageDataUrl # Null
                                THEN originalImageDataUrl ELSE backgroundImage
          /\ UNCHANGED <<toggleDisabled, loading, message, sessions>>
    /\ UNCHANGED <<selVars, toggleShown, styleValue, submitDisabled, readers,
                   uploads, cacheVars, harnessVars>>

\* Mutant of showCached: the busy indicator and the toggle are left as the
\* handler set them before the cache read.
showCachedStillBusy(cached) ==
    /\ optimizedImageDataUrl' = cached
    /\ backgroundImage' = cached
    /\ UNCHANGED <<loading, toggleDisabled>>

\* The cache-hit branch of the toggle handler (lines 172-177).
showCached(cached) ==
    /\ optimizedImageDataUrl' = cached
    /\ backgroundImage' = cached
    /\ loading' = FALSE
    /\ toggleDisabled' = FALSE

\* The toggle-ON handler resumes after `await imageCache.get` (line 170) and
\* runs to its end or to the await of fetch in optimizeImage (line 232).
\* A rejected get ends the handler with an unhandled rejection.
GetDone(i, env) ==
    /\ i \in DOMAIN sessions
    /\ sessions[i].pc = "get"
    /\ env \in GetEnvs
    /\ LET s == sessions[i]
           r == CacheGet(idb, ls, s.fileName, s.style, env)
       IN  \/ /\ r.status = "rejected"
              /\ sessions' = RemoveAt(sessions, i)
              /\ UNCHANGED <<optimizedImageDataUrl, backgroundImage, loading,
                             toggleDisabled>>
           \/ /\ r.status = "resolved"
              /\ r.value # Null
              /\ showCached(r.value)
              /\ sessions' = RemoveAt(sessions, i)
           \/ /\ r.status = "resolved"
              /\ r.value = Null
              /\ sessions' = ReplaceAt(sessions, i,
                     [pc |-> "fetch", file |-> selectedFile, style |-> s.style])
              /\ UNCHANGED <<optimizedImageDataUrl, backgroundImage, loading,
                             toggleDisabled>>
    /\ UNCHANGED <<selectedFile, originalImageDataUrl, toggleChecked, toggleShown,
                   styleValue, submitDisabled, message, readers, uploads,
                   cacheVars, harnessVars>>

\* The catch and finally blocks of optimizeImage (lines 252-258).
optimizeCatch(text) ==
    /\ message' = Msg("Error: " \o text, "error")
    /\ toggleChecked' = FALSE
    /\ loading' = FALSE
    /\ toggleDisabled' = FALSE

\* Mutant of OptimizeResponse: after a transport failure the request is sent
\* again.
OptimizeResponseRetries(i, outcome) ==
    /\ i \in DOMAIN sessions
    /\ sessions[i].pc = "fetch"
    /\ outcome \in OptimizeOutcomes
    /\ LET s == sessions[i]
       IN  \/ /\ outcome = "ok"
              /\ s.file # Null
              /\ sessions' = ReplaceAt(sessions, i,
                     [pc |-> "decode", file |-> s.file, style |-> s.style])
              /\ UNCHANGED <<toggleChecked, toggleDisabled, loading, message>>
           \/ /\ outcome = "status_error"
              /\ message' = Msg("Optimization failed: " \o EndpointError, "error")
              /\ toggleChecked' = FALSE
              /\ loading' = FALSE
              /\ toggleDisabled' = FALSE
              /\ sessions' = RemoveAt(sessions, i)
           \/ /\ outcome = "reject"
              /\ message' = Msg("Error: " \o TransportError, "error")
              /\ UNCHANGED <<toggleChecked, toggleDisabled, loading, sessions>>
    /\ UNCHANGED <<selVars, backgroundImage, toggleShown, styleValue,
                   submitDisabled, readers, uploads, cacheVars, harnessVars>>

\* optimizeImage resumes with the endpoint's answer (lines 232-243).  The
\* endpoint answers with an image only when the request carried a file.
OptimizeResponse(i, outcome) ==
    /\ i \in DOMAIN sessions
    /\ sessions[i].pc = "fetch"
    /\ outcome \in OptimizeOutcomes
    /\ LET s == sessions[i]
       IN  \/ /\ outcome = "ok"
              /\ s.file # Null
              /\ sessions' = ReplaceAt(sessions, i,
                     [pc |-> "decode", file |-> s.file, style |-> s.style])
              /\ UNCHANGED <<toggleChecked, toggleDisabled, loading, message>>
           \/ /\ outcome = "status_error"
              /\ message' = Msg("Optimization failed: " \o EndpointError, "error")
              /\ toggleChecked' = FALSE
              /\ loading' = FALSE
              /\ toggleDisabled' = FALSE
              /\ sessions' = RemoveAt(sessions, i)
           \/ /\ outcome = "reject"
              /\ optimizeCatch(TransportError)
              /\ sessions' = RemoveAt(sessions, i)
    /\ UNCHANGED <<selVars, backgroundImage, toggleShown, styleValue,
                   submitDisabled, readers, uploads, cacheVars, harnessVars>>

\* optimizeImage resumes with the data URL of the returned image and runs
\* lines 246-249: the result is stored and displayed, and imageCache.set is
\* called with the name of the file that is selected now.  Reading the name
\* of no file throws, which the catch block handles.
DecodeDone(i) ==
    /\ i \in DOMAIN sessions
    /\ sessions[i].pc = "decode"
    /\ LET s == sessions[i]
           dataUrl == OptUrl(s.file.id, s.style)
       IN  /\ optimizedImageDataUrl' = dataUrl
           /\ backgroundImage' = dataUrl
           /\ \/ /\ selectedFile = Null
                 /\ optimizeCatch(NullNameError)
                 /\ sessions' = RemoveAt(sessions, i)
              \/ /\ selectedFile # Null
                 /\ sessions' = ReplaceAt(sessions, i,
                        [pc |-> "set", file |-> s.file, style |-> s.style,
                         setName |-> selectedFile.name])
                 /\ UNCHANGED <<toggleChecked, toggleDisabled, loading, message>>
    /\ UNCHANGED <<selectedFile, originalImageDataUrl, toggleShown, styleValue,
                   submitDisabled, readers, uploads, cacheVars, harnessVars>>

\* The FileReader of blobToDataURL fails: it has no onerror handler, so the
\* promise is never settled and optimizeImage never resumes.
DecodeHang(i) ==
    /\ i \in DOMAIN sessions
    /\ sessions[i].pc = "decode"
    /\ sessions' = RemoveAt(sessions, i)
    /\ UNCHANGED <<selVars, domVars, readers, uploads, cacheVars, harnessVars>>

\* The outcomes of set the quotas allow in this state of the stores.
SetEnvAllowed(db, store, fileName, style, dataUrl, env) ==
    LET r == CacheSet(db, store, fileName, style, dataUrl, env)
    IN  /\ Cardinality(r.db) <= IdbCapacity
        /\ Cardinality(DOMAIN r.store) <= LsCapacity

\* imageCache.set runs and optimizeImage resumes after it (lines 249-258).
\* A set that is never settled leaves optimizeImage suspended for good.
SetDone(i, env) ==
    /\ i \in DOMAIN sessions
    /\ sessions[i].pc = "set"
    /\ env \in SetEnvs
    /\ LET s == sessions[i]
           dataUrl == OptUrl(s.file.id, s.style)
           r == CacheSet(idb, ls, s.setName, s.style, dataUrl, env)
       IN  /\ SetEnvAllowed(idb, ls, s.setName, s.style, dataUrl, env)
           /\ idb' = r.db
           /\ ls' = r.store
           /\ sessions' = RemoveAt(sessions, i)
           /\ \/ /\ r.status = "resolved"
                 /\ loading' = FALSE
                 /\ toggleDisabled' = FALSE
                 /\ UNCHANGED <<toggleChecked, message>>
              \/ /\ r.status = "rejected"
                 /\ optimizeCatch(TransactionError)
              \/ /\ r.status = "pending"
                 /\ UNCHANGED <<toggleChecked, toggleDisabled, loading, message>>
    /\ UNCHANGED <<selVars, backgroundImage, toggleShown, styleValue,
                   submitDisabled, readers, uploads, harnessVars>>

\* ------------------------------------------------------------------ submit
\* Mutant of resetForm: the Optimized value survives the reset.
resetFormKeepsOptimized ==
    /\ selectedFile' = Null
    /\ originalImageDataUrl' = Null
    /\ UNCHANGED optimizedImageDataUrl
    /\ submitDisabled' = TRUE
    /\ backgroundImage' = Null
    /\ toggleShown' = FALSE
    /\ toggleChecked' = FALSE

\* resetForm()
resetForm ==
    /\ selectedFile' = Null
    /\ originalImageDataUrl' = Null
    /\ optimizedImageDataUrl' = Null
    /\ submitDisabled' = TRUE
    /\ backgroundImage' = Null
    /\ toggleShown' = FALSE
    /\ toggleChecked' = FALSE

\* Lines 286-291 of the submit handler: the request leaves with this body.
startUpload(i, body) ==
    /\ submitDisabled' = TRUE
    /\ loading' = TRUE
    /\ clearMessage
    /\ uploads' = IF i = 0 THEN Append(uploads, [pc |-> "upload", body |-> body])
                  ELSE ReplaceAt(uploads, i, [pc |-> "upload", body |-> body])

\* Mutant of SubmitClick: the selected file is sent whatever the toggle says.
SubmitClickAlwaysOriginal ==
    /\ ~submitDisabled
    /\ selectedFile # Null
    /\ Len(uploads) < MaxSubmits
    /\ startUpload(0, [bytes |-> [kind |-> "file", file |-> selectedFile.id],
                       name |-> selectedFile.name])
    /\ UNCHANGED <<selVars, backgroundImage, toggleChecked, toggleDisabled,
                   toggleShown, styleValue, readers, sessions, cacheVars,
                   harnessVars>>

\* The click handler of submitBtn, up to its first await: the fetch of the
\* optimized data URL (line 278) when the toggle is on and an Optimized
\* value is there, the upload request (line 291) otherwise.  A disabled
\* button receives no click.
SubmitClick ==
    /\ ~submitDisabled
    /\ selectedFile # Null
    /\ Len(uploads) < MaxSubmits
    /\ \/ /\ toggleChecked
          /\ optimizedImageDataUrl # Null
          /\ uploads' = Append(uploads, [pc |-> "toBlob", url |-> optimizedImageDataUrl])
          /\ UNCHANGED <<submitDisabled, loading, message>>
       \/ /\ ~(toggleChecked /\ optimizedImageDataUrl # Null)
          /\ startUpload(0, [bytes |-> [kind |-> "file", file |-> selectedFile.id],
                             name |-> selectedFile.name])
    /\ UNCHANGED <<selVars, backgroundImage, toggleChecked, toggleDisabled,
                   toggleShown, styleValue, readers, sessions, cacheVars,
                   harnessVars>>

\* The submit handler resumes with the blob of the optimized data URL
\* (lines 279-291) and names it after the file that is selected now.
\* Reading the name of no file throws and ends the handler.
SubmitBlobDone(i) ==
    /\ i \in DOMAIN uploads
    /\ uploads[i].pc = "toBlob"
    /\ \/ /\ selectedFile = Null
          /\ uploads' = RemoveAt(uploads, i)
          /\ UNCHANGED <<submitDisabled, loading, message>>
       \/ /\ selectedFile # Null
          /\ startUpload(i, [bytes |-> uploads[i].url, name |-> selectedFile.name])
    /\ UNCHANGED <<selVars, backgroundImage, toggleChecked, toggleDisabled,
                   toggleShown, styleValue, readers, sessions, cacheVars,
                   harnessVars>>

\* The submit handler resumes with the upload endpoint's answer (lines
\* 291-306).
UploadResponse(i, outcome) ==
    /\ i \in DOMAIN uploads
    /\ uploads[i].pc = "upload"
    /\ outcome \in UploadOutcomes
    /\ uploads' = RemoveAt(uploads, i)
    /\ loading' = FALSE
    /\ \/ /\ outcome = "ok"
          /\ message' = Msg("upload success", "success")
          /\ resetForm
       \/ /\ outcome # "ok"
          /\ message' = Msg("Error: " \o
                 (IF outcome = "status_error" THEN EndpointError
                  ELSE TransportError), "error")
          /\ submitDisabled' = FALSE
          /\ UNCHANGED <<selVars, backgroundImage, toggleShown, toggleChecked>>
    /\ UNCHANGED <<toggleDisabled, styleValue, readers, sessions, cacheVars,
                   harnessVars>>

\* ------------------------------------------------------------ cache harness
\* The cache layer on its own: two different (fileName, style) inputs are
\* drawn, and get and set are called on them one call at a time, each call
\* with any behaviour of the platform.  The first input is the observed
\* one; calls on the second one come in between.
HarnessNames == {"a", "a_style_1"}
HarnessStyles == 0 .. MaxStyle
HarnessPairs == HarnessNames \X HarnessStyles
HarnessUrls == {OptUrl(1, 0), OptUrl(2, 0)}

HarnessInit ==
    /\ AppInit
    /\ CacheInit
    /\ hp \in {h \in HarnessPairs \X HarnessPairs : h[1] # h[2]}
    /\ call = [op |-> "none"]
    /\ lastSet = Null

\* One call of imageCache.set(fileName, style, dataUrl).  call keeps what the
\* last call was, how it ended and whether its openDB yielded the database
\* (the structured store serves the call) or null (the fallback store serves
\* it).  lastSet keeps, for
\* the observed input, the value of its last set if that set resolved, where
\* it was stored, and whether the call before it was the same call and
\* resolved too.
HarnessSet(p, dataUrl, env) ==
    /\ p \in {hp[1], hp[2]}
    /\ LET r == CacheSet(idb, ls, p[1], p[2], dataUrl, env)
           same == /\ call.op = "set"
                   /\ call.fileName = p[1]
                   /\ call.style = p[2]
                   /\ call.data = dataUrl
       IN  /\ idb' = r.db
           /\ ls' = r.store
           /\ call' = [op |-> "set", fileName |-> p[1], style |-> p[2],
                       data |-> dataUrl, status |-> r.status, repeat |-> same,
                       opened |-> openDB(env.open)]
           /\ lastSet' = IF p # hp[1] THEN lastSet
                         ELSE IF r.status = "resolved"
                         THEN [data |-> dataUrl, stored |-> r.stored,
                               twice |-> same /\ call.status = "resolved"]
                         ELSE Null
    /\ UNCHANGED <<selVars, domVars, asyncVars, hp>>

\* One call of imageCache.get(fileName, style).
HarnessGet(p, env) ==
    /\ p \in {hp[1], hp[2]}
    /\ LET r == CacheGet(idb, ls, p[1], p[2], env)
       IN  call' = [op |-> "get", fileName |-> p[1], style |-> p[2],
                    status |-> r.status, value |-> r.value, backend |-> r.backend,
                    opened |-> openDB(env.open)]
    /\ UNCHANGED <<selVars, domVars, asyncVars, cacheVars, hp, lastSet>>

\* The composite key on its own: two inputs are drawn, among them file names
\* that contain the separator or end in a digit and styles of several
\* digits, and the key of each is computed.
KeyNames == {"a", "a1", "a_style_1", "a_style_"}
KeyStyles == (0 .. MaxStyle) \cup {10, 11}
KeyPairs == KeyNames \X KeyStyles

KeyInit ==
    /\ AppInit
    /\ CacheInit
    /\ hp \in KeyPairs \X KeyPairs
    /\ call = [op |-> "none"]
    /\ lastSet = Null

ComputeKeys ==
    /\ call.op = "none"
    /\ call' = [op |-> "keys",
                k1 |-> getCompositeKey(hp[1][1], hp[1][2]),
                k2 |-> getCompositeKey(hp[2][1], hp[2][2])]
    /\ UNCHANGED <<selVars, domVars, asyncVars, cacheVars, hp, lastSet>>

\* ------------------------------------------------------- optimize endpoint
\* POST /api/optimize-image of the server, up to its call of the
\* generative-image API.  imageStyleIndex arrives as a string of the
\* multipart body; the characters drawn here are digits, the decimal point,
\* the minus sign, the space and a letter.
DecimalDigitChars == <<"0", "1", "2", "3", "4", "5", "6", "7", "8", "9">>
Digits == {DecimalDigitChars[d] : d \in 1 .. 10}
IndexChars == {"0", "1", "2", "9", ".", "-", " ", "a"}

DigitValue(c) == CHOOSE d \in 0 .. 9 : DecimalDigitChars[d + 1] = c

RECURSIVE Pow10(_)
Pow10(n) == IF n = 0 THEN 1 ELSE 10 * Pow10(n - 1)

\* Numbers are kept as a sign and a magnitude in units of 10^-MaxIndexLen,
\* which holds every fraction a string of that length can denote.
Scale == Pow10(MaxIndexLen)
NaN == [nan |-> TRUE, neg |-> FALSE, mag |-> 0]

\* The value of a sequence of decimal digits.
RECURSIVE DecimalDigitsValue(_)
DecimalDigitsValue(ds) ==
    IF ds = << >> THEN 0
    ELSE 10 * DecimalDigitsValue(SubSeq(ds, 1, Len(ds) - 1)) + DigitValue(ds[Len(ds)])

\* The canonical decimal string of a non-negative integer (an array index
\* as a property key).
RECURSIVE DecimalChars(_)
DecimalChars(i) ==
    IF i < 10 THEN <<DecimalDigitChars[i + 1]>>
    ELSE DecimalChars(i \div 10) \o <<DecimalDigitChars[(i % 10) + 1]>>

\* White space is stripped from both ends before a string is converted.
RECURSIVE TrimStart(_)
TrimStart(cs) == IF cs # << >> /\ cs[1] = " " THEN TrimStart(Tail(cs)) ELSE cs
RECURSIVE TrimEnd(_)
TrimEnd(cs) ==
    IF cs # << >> /\ cs[Len(cs)] = " " THEN TrimEnd(SubSeq(cs, 1, Len(cs) - 1)) ELSE cs

\* ToNumber of a string, as isNaN and the comparisons with numbers apply it:
\* the empty string is 0; an optional minus sign and decimal digits with at
\* most one decimal point and at least one digit denote their value;
\* anything else over IndexChars is NaN.  (Exponents, hexadecimal digits and
\* "Infinity" need characters that are not drawn.)
ToNumber(cs) ==
    LET t == TrimEnd(TrimStart(cs))
        neg == t # << >> /\ t[1] = "-"
        body == IF neg THEN Tail(t) ELSE t
        dots == {i \in DOMAIN body : body[i] = "."}
        wellFormed == /\ \A i \in DOMAIN body : body[i] \in Digits \cup {"."}
                      /\ Cardinality(dots) <= 1
                      /\ \E i \in DOMAIN body : body[i] \in Digits
        dot == IF dots = {} THEN Len(body) + 1 ELSE CHOOSE i \in dots : TRUE
        int == SubSeq(body, 1, dot - 1)
        frac == SubSeq(body, dot + 1, Len(body))
    IN  IF t = << >> THEN [nan |-> FALSE, neg |-> FALSE, mag |-> 0]
        ELSE IF ~wellFormed THEN NaN
        ELSE [nan |-> FALSE, neg |-> neg,
              mag |-> DecimalDigitsValue(int) * Scale
                      + DecimalDigitsValue(frac) * Pow10(MaxIndexLen - Len(frac))]

isNaN(cs) == ToNumber(cs).nan

\* cs < 0 and cs >= n for a string cs and a non-negative integer n (false
\* for NaN; minus zero is not less than zero).
LessThanZero(cs) == ~ToNumber(cs).nan /\ ToNumber(cs).neg /\ ToNumber(cs).mag > 0
AtLeast(cs, n) ==
    /\ ~ToNumber(cs).nan
    /\ IF ToNumber(cs).neg THEN ToNumber(cs).mag = 0 /\ n = 0
       ELSE ToNumber(cs).mag >= n * Scale

\* imageStylePrompts.length: the catalog has one prompt per entry of the
\* style select.
CatalogLength == MaxStyle + 1

\* The catalog index whose prompt text the request is sent with (line 187):
\* the entry the string names as a property key, else the entry marked
\* default, else entry 0.  default is -1 when no entry is marked.  (Every
\* entry has a text.)
promptIndex(cs, default) ==
    IF \E i \in 0 .. CatalogLength - 1 : DecimalChars(i) = cs
    THEN CHOOSE i \in 0 .. CatalogLength - 1 : DecimalChars(i) = cs
    ELSE IF default # -1 THEN default
    ELSE 0

\* The handler of POST /api/optimize-image (lines 132-199): the answer it
\* gives before the generative call (status 400 or 500), or the catalog
\* index of the prompt it makes the generative call with (status 0: the
\* answer depends on that call).
optimizeImageEndpoint(req) ==
    IF req.file = Null
    THEN [status |-> 400, generated |-> FALSE, prompt |-> -1]
    ELSE IF ~StartsWith(req.file.mimetype, ImagePrefix)
    THEN [status |-> 400, generated |-> FALSE, prompt |-> -1]
    ELSE IF \/ ~req.index.defined
            \/ isNaN(req.index.chars)
            \/ LessThanZero(req.index.chars)
            \/ AtLeast(req.index.chars, CatalogLength)
    THEN [status |-> 400, generated |-> FALSE, prompt |-> -1]
    ELSE IF ~req.apiKey
    THEN [status |-> 500, generated |-> FALSE, prompt |-> -1]
    ELSE [status |-> 0, generated |-> TRUE,
          prompt |-> promptIndex(req.index.chars, req.default)]

\* The requests drawn: no file or a file of some media type; no
\* imageStyleIndex field or any string of IndexChars up to MaxIndexLen; the
\* API key configured or not; the catalog entry marked default, if any.
RequestFiles == {Null, [mimetype |-> ImagePng], [mimetype |-> TextPlain],
                 [mimetype |-> ImagesX]}
IndexStrings == UNION {[1 .. k -> IndexChars] : k \in 0 .. MaxIndexLen}
IndexFields == {[defined |-> FALSE, chars |-> << >>]}
                   \cup {[defined |-> TRUE, chars |-> cs] : cs \in IndexStrings}
Requests == [file : RequestFiles, index : IndexFields, apiKey : BOOLEAN,
             default : -1 .. CatalogLength - 1]

EndpointInit ==
    /\ AppInit
    /\ CacheInit
    /\ hp \in Requests
    /\ call = [op |-> "none"]
    /\ lastSet = Null

\* The server handles the request.
HandleOptimizeRequest ==
    /\ call.op = "none"
    /\ call' = [op |-> "optimize", res |-> optimizeImageEndpoint(hp)]
    /\ UNCHANGED <<selVars, domVars, asyncVars, cacheVars, hp, lastSet>>

\* ----------------------------------------------------------- specifications
\* The handlers of the page that every specification of the app has.
CommonNext ==
    \/ \E file \in Files : handleFileSelect(file)
    \/ \E i \in 1 .. MaxReaders : ReaderLoad(i)
    \/ ToggleChange
    \/ \E i \in 1 .. MaxSessions, env \in GetEnvs : GetDone(i, env)
    \/ \E i \in 1 .. MaxSessions, outcome \in OptimizeOutcomes : OptimizeResponse(i, outcome)
    \/ \E i \in 1 .. MaxSessions : DecodeDone(i)
    \/ \E i \in 1 .. MaxSessions : DecodeHang(i)
    \/ \E i \in 1 .. MaxSessions, env \in SetEnvs : SetDone(i, env)

SubmitNext ==
    \/ SubmitClick
    \/ \E i \in 1 .. MaxSubmits : SubmitBlobDone(i)
    \/ \E i \in 1 .. MaxSubmits, outcome \in UploadOutcomes : UploadResponse(i, outcome)

\* The page with the style select left at its initial value and the submit
\* button unused: file selection and the optimization toggle.
Next == CommonNext

Spec == Init /\ [][Next]_vars

\* The page with the submit button in use.
UploadNext == CommonNext \/ SubmitNext

SpecSubmit == Init /\ [][UploadNext]_vars

\* The page with the style select in use.
StyleNext == CommonNext \/ \E s \in Styles : StyleChange(s)

SpecStyle == Init /\ [][StyleNext]_vars

\* The cache layer called directly.
CacheNext ==
    \/ \E i \in 1 .. 2, d \in HarnessUrls, env \in SetEnvs : HarnessSet(hp[i], d, env)
    \/ \E i \in 1 .. 2, env \in GetEnvs : HarnessGet(hp[i], env)

SpecCache == HarnessInit /\ [][CacheNext]_vars

\* The composite key computed directly.
KeyNext == ComputeKeys

SpecKey == KeyInit /\ [][KeyNext]_vars

\* The optimize endpoint of the server called directly.
EndpointNext == HandleOptimizeRequest

SpecEndpoint == EndpointInit /\ [][EndpointNext]_vars

\* ------------------------------------------------------------------ claims
\* C1: When a new valid file is selected while an optimize request for the
\* previous file is in flight, the late response is discarded: no later step
\* makes the previous file's optimized result the displayed image.
StaleResponseDiscarded ==
    [][\A i \in DOMAIN sessions :
          (/\ sessions[i].pc \in {"fetch", "decode"}
           /\ sessions[i].file # Null
           /\ selectedFile # Null
           /\ selectedFile # sessions[i].file
           /\ backgroundImage # OptUrl(sessions[i].file.id, sessions[i].style))
          => backgroundImage' # OptUrl(sessions[i].file.id, sessions[i].style)]_vars

\* C2: In every state where a file is selected, the Original and Optimized
\* values that are held are values of that file: accepting a file clears the
\* values of the previous file in the same step.
SelectionInvalidatesDerived ==
    selectedFile # Null =>
        /\ originalImageDataUrl # Null => originalImageDataUrl.file = selectedFile.id
        /\ optimizedImageDataUrl # Null => optimizedImageDataUrl.file = selectedFile.id

\* C3: Every cache entry written under the key of (fileName, style), in
\* either store, holds the result of optimizing a file of that name with
\* that style.
CacheEntriesMatchKey ==
    /\ \A r \in idb :
          \E f \in Files : f.name = r.fileName /\ r.data = OptUrl(f.id, r.style)
    /\ \A f \in Files, st \in Styles :
          LET k == CACHE_KEY_PREFIX \o getCompositeKey(f.name, st)
          IN  k \in DOMAIN ls =>
                  \E g \in Files : g.name = f.name /\ ls[k] = OptUrl(g.id, st)

\* C4: A get of the observed input that resolves after a set of that input
\* resolved and stored its value, with no set of that input in between,
\* returns the value of that set, whichever store serves each call.
SetThenGet ==
    (/\ call.op = "get"
     /\ <<call.fileName, call.style>> = hp[1]
     /\ call.status = "resolved"
     /\ lastSet # Null
     /\ lastSet.stored # "none")
    => call.value = lastSet.data

\* C5: Two (fileName, style) inputs have the same composite key exactly when
\* the file names are equal and the styles are equal.
KeyInjective ==
    call.op = "keys" => ((call.k1 = call.k2) <=> (hp[1] = hp[2]))

\* C5 witness: the keys of ("a_style_1", 10) and of a different input whose
\* name is "a" have been computed.
KeyInjectiveWitness ==
    /\ call.op = "keys"
    /\ hp[1] = <<"a_style_1", 10>>
    /\ hp[2][1] = "a"
    /\ call.k1 # call.k2

\* C6: A set that repeats the call before it resolves, a get of the observed
\* input after such a pair of sets returns their value, and no store holds
\* two entries for one key.
SetIdempotent ==
    /\ (call.op = "set" /\ call.repeat) => call.status = "resolved"
    /\ (/\ call.op = "get"
        /\ <<call.fileName, call.style>> = hp[1]
        /\ lastSet # Null
        /\ lastSet.twice)
       => (call.status = "resolved" /\ call.value = lastSet.data)
    /\ \A r1, r2 \in idb : r1.key = r2.key => r1 = r2

\* C7: Every call of get and of set resolves, whatever the platform does:
\* none returns a rejected promise or a promise that is never settled.
CacheNeverFails ==
    call.op \in {"get", "set"} => call.status = "resolved"

\* C8: When the toggle-ON handler's cache read returns a data URL, the
\* handler displays it, clears the busy indicator, enables the toggle again
\* and issues no request to the optimize endpoint.
CachedToggleNoRequest ==
    [][\A i \in DOMAIN sessions, env \in GetEnvs :
          (/\ sessions[i].pc = "get"
           /\ CacheGet(idb, ls, sessions[i].fileName, sessions[i].style, env).status
                  = "resolved"
           /\ CacheGet(idb, ls, sessions[i].fileName, sessions[i].style, env).value
                  # Null
           /\ GetDone(i, env))
          => LET cached == CacheGet(idb, ls, sessions[i].fileName,
                                    sessions[i].style, env).value
             IN  /\ backgroundImage' = cached
                 /\ optimizedImageDataUrl' = cached
                 /\ ~loading'
                 /\ ~toggleDisabled'
                 /\ \A j \in DOMAIN sessions' : sessions'[j].pc # "fetch"]_vars

\* C8 witness: the toggle was turned ON for a file and style whose key has
\* an entry in the structured store, and the handler awaits the cache read.
CachedToggleWitness ==
    \E i \in DOMAIN sessions :
        /\ sessions[i].pc = "get"
        /\ toggleChecked /\ toggleDisabled /\ loading
        /\ storeGet(idb, getCompositeKey(sessions[i].fileName, sessions[i].style)) # Null

\* C9: When a toggle-ON with a cache miss ends Ready after the endpoint's
\* success, the Optimized result is displayed and a get of the file's name
\* and the style returns it (here even only when the write was stored and
\* the read is served by the store that holds it, without failure).
ReadyMeansCached ==
    [][\A i \in DOMAIN sessions, env \in SetEnvs :
          (/\ sessions[i].pc = "set"
           /\ CacheSet(idb, ls, sessions[i].setName, sessions[i].style,
                       OptUrl(sessions[i].file.id, sessions[i].style), env).status
                  = "resolved"
           /\ CacheSet(idb, ls, sessions[i].setName, sessions[i].style,
                       OptUrl(sessions[i].file.id, sessions[i].style), env).stored
                  # "none"
           /\ SetDone(i, env))
          => LET stored == CacheSet(idb, ls, sessions[i].setName, sessions[i].style,
                               OptUrl(sessions[i].file.id, sessions[i].style), env).stored
                 genv == IF stored = "structured"
                         THEN [open |-> "ok", tx |-> "success"]
                         ELSE [open |-> "absent", tx |-> "success"]
                 got == CacheGet(idb', ls', sessions[i].file.name, sessions[i].style, genv)
             IN  /\ backgroundImage' = OptUrl(sessions[i].file.id, sessions[i].style)
                 /\ got.value = backgroundImage']_vars

\* The acceptance rule C10 states: an image media type and at most 50 MB.
ValidImage(file) ==
    /\ Len(file.type) >= 6
    /\ SubSeq(file.type, 1, 6) = <<"i", "m", "a", "g", "e", "/">>
    /\ file.size <= 52428800

\* C10: handleFileSelect accepts a file exactly when its media type starts
\* with "image/" and its size is at most 50 MB; a rejected file shows an
\* error and changes nothing else, and starts no request.
FileValidation ==
    [][\A f \in Files :
          handleFileSelect(f) =>
              IF ValidImage(f)
              THEN /\ selectedFile' = f
                   /\ readers' = Append(readers, f)
                   /\ ~submitDisabled'
              ELSE /\ message'.type = "error"
                   /\ UNCHANGED <<selVars, backgroundImage, toggleChecked,
                                  toggleDisabled, toggleShown, submitDisabled,
                                  readers, sessions, uploads, cacheVars>>]_vars

\* C10 witness: the file of exactly 50 MB is selected and, after it, a file
\* of one byte more was turned away with the size error.
FileValidationWitness ==
    /\ selectedFile = FileB
    /\ message = Msg("File size must be less than 50MB", "error")

\* C11: When the optimize endpoint answers with a non-success status or the
\* transport fails, the toggle is off again, the Original value is the
\* displayed image, the message is an error that carries the endpoint's
\* error text, the busy indicator is cleared, the toggle is enabled, and no
\* store is written and no cache write is left to run.
EndpointFailureEndsFailed ==
    [][\A i \in DOMAIN sessions, outcome \in {"status_error", "reject"} :
          (sessions[i].pc = "fetch" /\ OptimizeResponse(i, outcome))
          => /\ ~toggleChecked'
             /\ backgroundImage' = originalImageDataUrl'
             /\ message'.type = "error"
             /\ outcome = "status_error"
                    => message'.text = "Optimization failed: " \o EndpointError
             /\ ~loading'
             /\ ~toggleDisabled'
             /\ UNCHANGED cacheVars
             /\ \A j \in DOMAIN sessions' : sessions'[j].pc # "set"]_vars

\* C12: A submission sends the Optimized value held at the click exactly when
\* the toggle is on and an Optimized value is held at the click: the handler
\* then converts that value and the request that leaves carries its bytes;
\* otherwise the request leaves at once and carries the selected file.
UploadCarriesActiveVariant ==
    [][/\ SubmitClick =>
            LET u == uploads'[Len(uploads')]
            IN  IF toggleChecked /\ optimizedImageDataUrl # Null
                THEN u.pc = "toBlob" /\ u.url = optimizedImageDataUrl
                ELSE /\ u.pc = "upload"
                     /\ u.body.bytes = [kind |-> "file", file |-> selectedFile.id]
       /\ \A i \in DOMAIN uploads :
            (uploads[i].pc = "toBlob" /\ SubmitBlobDone(i) /\ Len(uploads') = Len(uploads))
            => /\ uploads'[i].pc = "upload"
               /\ uploads'[i].body.bytes = uploads[i].url]_vars

\* C12 witness: with the toggle on and an Optimized value held, submit was
\* clicked and the upload request that carries the optimized bytes has left.
UploadCarriesOptimizedWitness ==
    \E i \in DOMAIN uploads :
        /\ uploads[i].pc = "upload"
        /\ uploads[i].body.bytes.kind = "opt"

\* C13: When the upload endpoint answers with success, selectedFile, the
\* Original and the Optimized value are cleared, the toggle is off and submit
\* is disabled, whatever was selected or started while the upload was in
\* flight; when it answers with a non-success status or the transport fails,
\* selectedFile, Original and Optimized are unchanged, submit is enabled and
\* an error message is shown.
UploadResponseOutcome ==
    [][\A i \in DOMAIN uploads, outcome \in UploadOutcomes :
          (uploads[i].pc = "upload" /\ UploadResponse(i, outcome))
          => IF outcome = "ok"
             THEN /\ selectedFile' = Null
                  /\ originalImageDataUrl' = Null
                  /\ optimizedImageDataUrl' = Null
                  /\ ~toggleChecked'
                  /\ submitDisabled'
             ELSE /\ UNCHANGED selVars
                  /\ ~submitDisabled'
                  /\ message'.type = "error"]_vars

\* C13 witness: the upload succeeded and the form was reset while the decode
\* of a file selected during the upload is pending and a toggle-ON handler
\* is running.
UploadResetWitness ==
    /\ message = Msg("upload success", "success")
    /\ selectedFile = Null
    /\ submitDisabled
    /\ readers # << >>
    /\ sessions # << >>

\* C14: Turning the toggle OFF displays the Original value and keeps the
\* Optimized value; turning it ON while the Optimized value of the selected
\* file and style is held displays that value and starts no handler that
\* reads the cache or calls the optimize endpoint.
ToggleServesFromMemory ==
    [][(ToggleChange /\ selectedFile # Null) =>
          IF toggleChecked
          THEN /\ backgroundImage' = originalImageDataUrl
               /\ UNCHANGED optimizedImageDataUrl
          ELSE optimizedImageDataUrl = OptUrl(selectedFile.id, styleValue)
               => /\ backgroundImage' = optimizedImageDataUrl
                  /\ UNCHANGED sessions]_vars

\* C15: A change of the style while the toggle is ON starts the cache check
\* for the selected file and the new style; and once no toggle-ON handler is
\* running, with the toggle ON, neither the displayed image nor the Optimized
\* value a submission would send is a result for another style than the
\* selected one.
StyleChangeRerunsCheck ==
    [][/\ \A s \in Styles :
            (StyleChange(s) /\ toggleChecked /\ selectedFile # Null)
            => \E i \in DOMAIN sessions' :
                  /\ sessions'[i].pc = "get"
                  /\ sessions'[i].fileName = selectedFile.name
                  /\ sessions'[i].style = s
       /\ (toggleChecked' /\ sessions' = << >>)
            => /\ backgroundImage'.kind = "opt"
                    => backgroundImage'.style = styleValue'
               /\ optimizedImageDataUrl'.kind = "opt"
                    => optimizedImageDataUrl'.style = styleValue']_vars

\* C16: In every reachable state at most one toggle-ON handler has a request
\* to the optimize endpoint in flight (sent, or answered with its body still
\* being read), and the toggle is disabled as long as a toggle-ON handler is
\* running, whatever files are selected and whatever is submitted meanwhile.
OneOptimizeInFlight ==
    /\ Cardinality({i \in DOMAIN sessions : sessions[i].pc \in {"fetch", "decode"}}) <= 1
    /\ sessions # << >> => toggleDisabled

\* C16 witness: an optimize request is in flight while the decode of a newly
\* selected file is pending and an upload is in flight.
OneOptimizeInFlightWitness ==
    /\ \E i \in DOMAIN sessions : sessions[i].pc = "fetch"
    /\ readers # << >>
    /\ \E j \in DOMAIN uploads : uploads[j].pc = "upload"

\* C17: The backend that serves the calls of a session is fixed: a call of
\* get or set is served by the structured store exactly when the call before
\* it was.
BackendFixedForSession ==
    [][(call.op \in {"get", "set"} /\ call'.op \in {"get", "set"})
          => call'.opened = call.opened]_vars

\* What C18 says a get of input p returns under platform behaviour env: the
\* data of the structured store's record when the store opens, the read
\* succeeds and the record is there; the fallback store's value for the
\* prefixed key otherwise (null when it has none).
GetContract(p, env) ==
    LET key == p[1] \o "_style_" \o ToString(p[2])
        present == \E r \in idb : r.key = key
    IN  IF env.open = "ok" /\ env.tx = "success" /\ present
        THEN (CHOOSE r \in idb : r.key = key).data
        ELSE IF (CACHE_KEY_PREFIX \o key) \in DOMAIN ls
        THEN ls[CACHE_KEY_PREFIX \o key]
        ELSE Null

\* C18: Every call of get resolves to the structured store's record data
\* when that store opens and holds the record, to the fallback store's value
\* on a miss, an open failure or any read error, and to null exactly when
\* neither store yields a value.
GetReadsStructuredThenFallback ==
    [][\A i \in 1 .. 2, env \in GetEnvs :
          HarnessGet(hp[i], env)
          => /\ call'.status = "resolved"
             /\ call'.value = GetContract(hp[i], env)]_vars

\* C19: When the cache write of a toggle-ON handler runs, the value is put
\* in the structured store if it opens and the transaction completes; on a
\* structured-store error (an error event, an abort, an exception) it is
\* written to the fallback store when the quota allows it; and in every case
\* set completes: the handler ends with the busy indicator cleared and the
\* toggle enabled, and leaves the toggle's position, the displayed image,
\* the Optimized value and the message as they were.
SetAbsorbsStoreErrors ==
    [][\A i \in DOMAIN sessions, env \in SetEnvs :
          (sessions[i].pc = "set" /\ SetDone(i, env))
          => LET s == sessions[i]
                 dataUrl == OptUrl(s.file.id, s.style)
                 key == getCompositeKey(s.setName, s.style)
             IN  /\ (env.open = "ok" /\ env.tx = "complete")
                        => \E r \in idb' : r.key = key /\ r.data = dataUrl
                 /\ (env.open = "ok" /\ env.tx # "complete" /\ env.quota = "ok")
                        => getItem(ls', CACHE_KEY_PREFIX \o key) = dataUrl
                 /\ ~loading'
                 /\ ~toggleDisabled'
                 /\ UNCHANGED <<toggleChecked, backgroundImage,
                                optimizedImageDataUrl, message>>]_vars

\* C20: Every toggle-ON handler ends with the busy indicator cleared and the
\* toggle enabled, whatever the cache stores and the blob decode do.  Only a
\* running toggle-ON handler enables the toggle again, and a handler that
\* will never resume is no longer in sessions; so the claim is that whenever
\* no toggle-ON handler is running, the toggle is enabled and the busy
\* indicator is cleared (otherwise they stay as they are forever).
ToggleOnTerminates ==
    sessions = << >> => (~toggleDisabled /\ ~loading)

\* The number of handlers of seq that are at one of the positions pcs.
NumAt(seq, pcs) == Cardinality({i \in DOMAIN seq : seq[i].pc \in pcs})

\* C21: A request to the optimize endpoint is issued only by a toggle-ON
\* handler that leaves its cache check, which each handler does once; an
\* upload request is issued only by a submit click or by a click's handler
\* that finished converting the Optimized value; and the step that handles a
\* failed optimize or a failed upload ends that handler and issues no
\* request of either kind.
NoAutomaticRetry ==
    [][/\ NumAt(sessions', {"fetch"}) > NumAt(sessions, {"fetch"})
            => /\ NumAt(sessions', {"get"}) < NumAt(sessions, {"get"})
               /\ NumAt(sessions', {"fetch"}) = NumAt(sessions, {"fetch"}) + 1
       /\ NumAt(uploads', {"upload"}) > NumAt(uploads, {"upload"})
            => /\ SubmitClick \/ NumAt(uploads', {"toBlob"}) < NumAt(uploads, {"toBlob"})
               /\ NumAt(uploads', {"upload"}) = NumAt(uploads, {"upload"}) + 1
       /\ \A i \in DOMAIN sessions, outcome \in {"status_error", "reject"} :
            (sessions[i].pc = "fetch" /\ OptimizeResponse(i, outcome))
            => /\ sessions' = RemoveAt(sessions, i)
               /\ UNCHANGED uploads
       /\ \A i \in DOMAIN uploads, outcome \in {"status_error", "reject"} :
            (uploads[i].pc = "upload" /\ UploadResponse(i, outcome))
            => /\ uploads' = RemoveAt(uploads, i)
               /\ UNCHANGED sessions]_vars

\* C21 witness: the optimize endpoint answered with a non-success status,
\* the handler ended, and no request is in flight.
NoAutomaticRetryWitness ==
    /\ message = Msg("Optimization failed: " \o EndpointError, "error")
    /\ selectedFile # Null
    /\ sessions = << >>
    /\ uploads = << >>

\* The imageStyleIndex fields C22 calls valid: a decimal integer (digits
\* only) whose value is an index of the catalog.
DecimalIntegerIndex(f) ==
    /\ f.defined
    /\ f.chars # << >>
    /\ \A i \in DOMAIN f.chars :
          f.chars[i] \in {"0", "1", "2", "3", "4", "5", "6", "7", "8", "9"}
    /\ DecimalDigitsValue(f.chars) < MaxStyle + 1

\* C22: The optimize endpoint answers 400, without making the generative
\* call, to every request with no file, with a file whose media type does
\* not start with "image/", or with an imageStyleIndex that is not a decimal
\* integer in the range of the catalog; and a generative call it makes uses
\* the prompt of the catalog entry at that index.
EndpointValidatesRequest ==
    call.op = "optimize" =>
        IF \/ hp.file = Null
           \/ ~(Len(hp.file.mimetype) >= 6
                /\ SubSeq(hp.file.mimetype, 1, 6) = <<"i", "m", "a", "g", "e", "/">>)
           \/ ~DecimalIntegerIndex(hp.index)
        THEN call.res.status = 400 /\ ~call.res.generated
        ELSE call.res.generated => call.res.prompt = DecimalDigitsValue(hp.index.chars)

\* C23: Whatever order the decodes of the selected files complete in, when
\* the last pending decode completes, originalImageDataUrl and the displayed
\* image are the Original of the file that is selected.
LastDecodeShowsSelected ==
    [][((\E i \in DOMAIN readers : ReaderLoad(i)) /\ readers' = << >>)
          => /\ originalImageDataUrl' = OrigUrl(selectedFile'.id)
             /\ backgroundImage' = OrigUrl(selectedFile'.id)]_vars

\* C24: In every reachable state at most one upload request is in flight,
\* and submit is disabled as long as a submit handler is running: while it
\* converts the Optimized value and while its upload request is in flight,
\* whatever file is selected meanwhile.
OneUploadInFlight ==
    /\ NumAt(uploads, {"upload"}) <= 1
    /\ uploads # << >> => submitDisabled

\* C25: In every reachable state where no file is selected, the Original and
\* the Optimized value are null, no image is displayed, the toggle is off
\* and submit is disabled; in particular a decode or an optimize response
\* that completes after the form was reset leaves them so.
EmptyIsConsistent ==
    selectedFile = Null =>
        /\ originalImageDataUrl = Null
        /\ optimizedImageDataUrl = Null
        /\ backgroundImage = Null
        /\ ~toggleChecked
        /\ submitDisabled

\* C26: In every reachable state where a file is selected and decoded and no
\* optimize operation is in flight (no decode is pending, no toggle-ON
\* handler is running, the toggle is enabled and the busy indicator is
\* cleared), the toggle is on exactly when the displayed image is an
\* Optimized value and off exactly when it is the Original value.
ToggleReflectsDisplay ==
    (/\ selectedFile # Null
     /\ originalImageDataUrl # Null
     /\ readers = << >>
     /\ sessions = << >>
     /\ ~toggleDisabled
     /\ ~loading)
    => /\ toggleChecked <=> backgroundImage.kind = "opt"
       /\ ~toggleChecked <=> backgroundImage = originalImageDataUrl

\* C27: The bytes a submit click sends, or starts converting in order to
\* send them, derive from the file that is selected at the click: they are
\* that file or an Optimized value produced from that file.
UploadDerivesFromSelected ==
    [][SubmitClick =>
          LET u == uploads'[Len(uploads')]
          IN  IF u.pc = "toBlob"
              THEN u.url.file = selectedFile.id
              ELSE u.body.bytes = [kind |-> "file", file |-> selectedFile.id]]_vars

====
